---------------------------- MODULE Spec2Model ----------------------------
(***************************************************************************)
(* A model of the AQP MCP server core:                                     *)
(*   - getToken            (src/src/utils/auth.ts)                         *)
(*   - AgentService.appendAndRun  (src/unnamed/part_001, "src/Agent.ts")   *)
(*   - pickCreatedMs / byCreatedAsc and the merge route                    *)
(*                         (src/unnamed/part_002)                          *)
(*   - bootstrap, the send route and getLastAssistantMessage               *)
(*                         (src/src/index.ts)                              *)
(* Each component has its own specification (AuthSpec, RunSpec,            *)
(* OrderSpec, PickSpec, LastSpec, ServerSpec); the variables of the        *)
(* other components stay at their initial values.                          *)
(***************************************************************************)
EXTENDS Integers, Sequences, FiniteSets, TLC

VARIABLES
  \* ---- auth.ts module state
  cachedToken,     \* auth.ts:3   "null" | "undefined" | a token string
  tokenExpireAt,   \* auth.ts:4   seconds; StrExpiry when a string was stored
  authNow,         \* Math.floor(Date.now() / 1000), as an offset in seconds
  callers,         \* one record per concurrent getToken invocation
  exchanges,       \* number of axios.post calls issued so far
  origin,          \* the exchange whose response wrote the cached pair
  \* ---- AgentService.appendAndRun, one invocation
  runPc, runClock, runInput, runEnd, cur, calls, reads, runResult,
  \* ---- the merge route's sort
  sortPc, sortClock, sortInput, sortArr, sortIdx, sortLeft, sortRight,
  firstOut, sortRound,
  \* ---- pickCreatedMs, one application
  pickPc, pickArg, pickNow, pickOut,
  \* ---- getLastAssistantMessage, one application
  lastPc, lastArg, lastOut,
  \* ---- the process: bootstrap, the listener, one request at a time
  procPc,          \* "boot" | "checking" | "listening" | "exited"
  env,             \* whether the environment names the project and the agents
  ctx,             \* index.ts:21-23
  checks,          \* the ensureAgentReady call of each agent
  reqPc,           \* where the handler of the current request stands
  request,         \* the route and the body of the current request
  remote,          \* the remote calls issued for the current request
  rawParam, rawSummary,   \* part_002:140
  response         \* what the handler answered

authVars == <<cachedToken, tokenExpireAt, authNow, callers, exchanges, origin>>
runVars == <<runPc, runClock, runInput, runEnd, cur, calls, reads, runResult>>
sortVars == <<sortPc, sortClock, sortInput, sortArr, sortIdx, sortLeft,
              sortRight, firstOut, sortRound>>
pickVars == <<pickPc, pickArg, pickNow, pickOut>>
lastVars == <<lastPc, lastArg, lastOut>>
srvVars == <<procPc, env, ctx, checks, reqPc, request, remote, rawParam,
             rawSummary, response>>
vars == <<authVars, runVars, sortVars, pickVars, lastVars, srvVars>>

\* The values of `cur` and of the outcome before appendAndRun has set them.
NoSnapshot == [status |-> "none", lastError |-> "none"]
NoResult == [kind |-> "none", status |-> "none", payload |-> "none"]

\* The cached pair before any response has written it.
NoOrigin ==
  [xid |-> 0, now |-> 0, at |-> 0, expires |-> "absent", ret |-> "none"]

\* `const ctx: AppCtx = { ready: false }`, index.ts:21-23
NoCtx ==
  [ready |-> FALSE, agentParams |-> FALSE, agentSummary |-> FALSE,
   agentRouting |-> FALSE]

NoRequest == [route |-> "none"]
NoResponse == [status |-> 0]


(***************************************************************************)
(*                    getToken  (src/src/utils/auth.ts)                    *)
(***************************************************************************)

\* ---- bounds of the auth model
MaxNow == 80
MaxExchanges == 3

\* ---- program constants
Margin == 60
DefaultTtl == 3600

\* Two invocations of getToken may be in flight at once.
Callers == {"c1", "c2"}
TickChoices == {20, 40}

\* tokenExpireAt after `now + expires_in` with expires_in a string such as
\* "3599": JavaScript concatenates, the slot holds the string "<now>3599".
\* Compared with a number it converts to a number far above any clock
\* reading; times 1000 it is outside the Date range.
StrExpiry == -1

\* expires_in of a response body: a positive number, 0, absent, or a string.
ExpiresChoices == {"80", "0", "absent", "string"}

ExpiresNumber(e) ==
  CASE e = "80" -> 80
    [] OTHER -> 0

\* A response of the identity endpoint as axios.post delivers it:
\*   reject   the promise rejects (transport error, non-2xx status)
\*   nodata   2xx with no body: response.data is undefined
\*   body     2xx with a body; hasToken says whether access_token is in it
Responses ==
  {[kind |-> "reject", hasToken |-> FALSE, expires |-> "absent"],
   [kind |-> "nodata", hasToken |-> FALSE, expires |-> "absent"]}
  \cup [kind : {"body"}, hasToken : BOOLEAN, expires : ExpiresChoices]

NoRet == [kind |-> "none", accessToken |-> "null", tokenExpireAt |-> 0]
NullRet == [kind |-> "null", accessToken |-> "null", tokenExpireAt |-> 0]

IdleCaller ==
  [pc |-> "idle", now |-> 0, seenExp |-> 0, xid |-> 0, resp |-> "none",
   ret |-> NoRet]

\* JavaScript truthiness of the cachedToken slot.
Truthy(tok) == tok \notin {"null", "undefined", ""}

\* `tokenExpireAt > now + 60` with JavaScript's conversion of a string operand.
ExpiresAfter(exp, bound) == IF exp = StrExpiry THEN TRUE ELSE exp > bound

\* The guard with >= in place of >: a token with exactly 60 seconds left
\* would still be served.
CacheFreshMutGe(tok, exp, now) ==
  Truthy(tok) /\ (IF exp = StrExpiry THEN TRUE ELSE exp >= now + Margin)

\* auth.ts:27
CacheFresh(tok, exp, now) == Truthy(tok) /\ ExpiresAfter(exp, now + Margin)

\* `now + (expires_in || 3600)`, auth.ts:42
NewExpiry(now, e) ==
  CASE e = "string" -> StrExpiry
    [] e \in {"0", "absent"} -> now + DefaultTtl
    [] OTHER -> now + ExpiresNumber(e)

\* `new Date(tokenExpireAt * 1000).toISOString()` throws a RangeError on an
\* invalid date, auth.ts:44
LogThrows(exp) == exp = StrExpiry

\* The access_token of the body answering exchange number xid.
TokenOf(xid, hasToken) == IF hasToken THEN "t" \o ToString(xid) ELSE "undefined"

AuthInit ==
  /\ cachedToken = "null"
  /\ tokenExpireAt = 0
  /\ authNow = 0
  /\ callers = [p \in Callers |-> IdleCaller]
  /\ exchanges = 0
  /\ origin = NoOrigin
  /\ runPc = "off"
  /\ runClock = 0
  /\ runInput = <<>>
  /\ runEnd = 0
  /\ cur = NoSnapshot
  /\ calls = <<>>
  /\ reads = <<>>
  /\ runResult = NoResult
  /\ sortPc = "off"
  /\ sortClock = 0
  /\ sortInput = <<>>
  /\ sortArr = <<>>
  /\ sortIdx = 0
  /\ sortLeft = 0
  /\ sortRight = 0
  /\ firstOut = <<>>
  /\ sortRound = 0
  /\ pickPc = "off"
  /\ pickArg = <<>>
  /\ pickNow = 0
  /\ pickOut = 0
  /\ lastPc = "off"
  /\ lastArg = <<>>
  /\ lastOut = <<>>
  /\ procPc = "off"
  /\ env = FALSE
  /\ ctx = NoCtx
  /\ checks = <<>>
  /\ reqPc = "off"
  /\ request = NoRequest
  /\ remote = <<>>
  /\ rawParam = <<>>
  /\ rawSummary = <<>>
  /\ response = NoResponse

\* getToken up to its first suspension: auth.ts:17-38
GetTokenCall(p) ==
  /\ callers[p].pc = "idle"
  /\ LET base == [IdleCaller EXCEPT !.now = authNow,
                                    !.seenExp = tokenExpireAt]
     IN IF CacheFresh(cachedToken, tokenExpireAt, authNow)
        THEN /\ callers' = [callers EXCEPT ![p] =
                   [base EXCEPT !.ret = [kind |-> "cached",
                                         accessToken |-> cachedToken,
                                         tokenExpireAt |-> tokenExpireAt]]]
             /\ exchanges' = exchanges
        ELSE /\ exchanges < MaxExchanges
             /\ callers' = [callers EXCEPT ![p] =
                   [base EXCEPT !.pc = "awaiting", !.xid = exchanges + 1]]
             /\ exchanges' = exchanges + 1
  /\ UNCHANGED <<cachedToken, tokenExpireAt, authNow, origin>>
  /\ UNCHANGED <<runVars, sortVars, pickVars, lastVars, srvVars>>

\* The continuation after `await axios.post(...)`: auth.ts:38-49
GetTokenResume(p, r) ==
  /\ callers[p].pc = "awaiting"
  /\ LET c == callers[p]
         tok == TokenOf(c.xid, r.hasToken)
         exp == NewExpiry(c.now, r.expires)
     IN IF r.kind \in {"reject", "nodata"}
        THEN /\ callers' = [callers EXCEPT ![p] =
                   [c EXCEPT !.pc = "idle", !.resp = r.kind, !.ret = NullRet]]
             /\ UNCHANGED <<cachedToken, tokenExpireAt, origin>>
        ELSE /\ cachedToken' = tok
             /\ tokenExpireAt' = exp
             /\ origin' = [xid |-> c.xid, now |-> c.now, at |-> authNow,
                           expires |-> r.expires,
                           ret |-> IF LogThrows(exp) THEN "null" ELSE "fresh"]
             /\ callers' = [callers EXCEPT ![p] =
                   [c EXCEPT !.pc = "idle",
                             !.resp = IF ~r.hasToken THEN "notoken"
                                      ELSE IF r.expires = "string" THEN "strexp"
                                      ELSE "ok",
                             !.ret = IF LogThrows(exp) THEN NullRet
                                     ELSE [kind |-> "fresh",
                                           accessToken |-> tok,
                                           tokenExpireAt |-> exp]]]
  /\ UNCHANGED <<authNow, exchanges>>
  /\ UNCHANGED <<runVars, sortVars, pickVars, lastVars, srvVars>>

\* The wall clock moves between calls and while exchanges are in flight.
AuthTick(d) ==
  /\ authNow + d <= MaxNow
  /\ authNow' = authNow + d
  /\ UNCHANGED <<cachedToken, tokenExpireAt, callers, exchanges, origin>>
  /\ UNCHANGED <<runVars, sortVars, pickVars, lastVars, srvVars>>

AuthNext ==
  \/ \E p \in Callers : GetTokenCall(p)
  \/ \E p \in Callers : \E r \in Responses : GetTokenResume(p, r)
  \/ \E d \in TickChoices : AuthTick(d)


(***************************************************************************)
(*        AgentService.appendAndRun  (src/unnamed/part_001:56-74)          *)
(* Time is counted in units of 1000 ms.                                    *)
(***************************************************************************)

\* ---- bounds of the run model
MaxLatency == 1     \* a remote call takes 0..MaxLatency units
MaxLate == 1        \* a timer fires 0..MaxLate units after its delay
MaxPoll == 2        \* pollMs is 1..MaxPoll units
MaxTimeout == 3     \* timeoutMs is 0..MaxTimeout units

Latencies == 0..MaxLatency
Lateness == 0..MaxLate

WhiteSpace == {" ", "\t", "\n"}

\* The message argument: absent (null/undefined) or a string, kept as the
\* sequence of its characters.
MessageChoices ==
  {[present |-> FALSE, text |-> <<>>],
   [present |-> TRUE, text |-> <<>>],
   [present |-> TRUE, text |-> <<" ">>],
   [present |-> TRUE, text |-> <<"\t", " ">>],
   [present |-> TRUE, text |-> <<"h", "i">>],
   [present |-> TRUE, text |-> <<" ", "h", " ">>]}

RunInputs ==
  [message : MessageChoices, pollMs : 1..MaxPoll, timeoutMs : 0..MaxTimeout]

RECURSIVE TrimStart(_)
TrimStart(s) ==
  IF s # <<>> /\ Head(s) \in WhiteSpace THEN TrimStart(Tail(s)) ELSE s

RECURSIVE TrimEnd(_)
TrimEnd(s) ==
  IF s # <<>> /\ s[Len(s)] \in WhiteSpace
  THEN TrimEnd(SubSeq(s, 1, Len(s) - 1)) ELSE s

\* String.prototype.trim
Trim(s) == TrimEnd(TrimStart(s))

\* The argument check without the trim.
MessageRejectedMutNoTrim(m) == ~m.present \/ m.text = <<>>

\* `!message?.trim()`, part_001:57
MessageRejected(m) == ~m.present \/ Trim(m.text) = <<>>

RunStatuses == {"queued", "in_progress", "completed", "failed", "cancelled"}
ErrorPayloads == {"err_a", "err_b"}

\* What runs.get resolves to: a status and, for a failed run, its lastError.
RunSnapshots ==
  [status : RunStatuses \ {"failed"}, lastError : {"none"}]
  \cup [status : {"failed"}, lastError : ErrorPayloads]


NonTerminal(st) == st \in {"queued", "in_progress"}

\* The loop condition without the in_progress case.
KeepPollingMutQueuedOnly(st, now, end) == st = "queued" /\ now < end

\* The loop condition, part_001:65
KeepPolling(st, now, end) == NonTerminal(st) /\ now < end

\* The end of appendAndRun if it also threw on a status that is still
\* queued or in_progress.
OutcomeMutThrowOnTimeout(c) ==
  IF c.status = "failed" \/ NonTerminal(c.status)
  THEN [kind |-> "throw", status |-> "run failed", payload |-> c.lastError]
  ELSE [kind |-> "return", status |-> c.status, payload |-> "none"]

\* The end of appendAndRun without the failed check.
OutcomeMutNoFailedCheck(c) ==
  [kind |-> "return", status |-> c.status, payload |-> "none"]

\* part_001:69-73
Outcome(c) ==
  IF c.status = "failed"
  THEN [kind |-> "throw", status |-> "run failed", payload |-> c.lastError]
  ELSE [kind |-> "return", status |-> c.status, payload |-> "none"]

EmptyMessageError ==
  [kind |-> "throw", status |-> "message is empty", payload |-> "none"]
RemoteError(op) == [kind |-> "throw", status |-> op, payload |-> "remote"]

Issue(op) == Append(calls, [op |-> op, at |-> runClock, res |-> "pending"])
Settle(cs, res) == [cs EXCEPT ![Len(cs)].res = res]

RunInit ==
  /\ runPc = "idle"
  /\ runClock = 0
  /\ runInput \in RunInputs
  /\ runEnd = 0
  /\ cur = NoSnapshot
  /\ calls = <<>>
  /\ reads = <<>>
  /\ runResult = NoResult
  /\ cachedToken = "null"
  /\ tokenExpireAt = 0
  /\ authNow = 0
  /\ callers = <<>>
  /\ exchanges = 0
  /\ origin = NoOrigin
  /\ sortPc = "off"
  /\ sortClock = 0
  /\ sortInput = <<>>
  /\ sortArr = <<>>
  /\ sortIdx = 0
  /\ sortLeft = 0
  /\ sortRight = 0
  /\ firstOut = <<>>
  /\ sortRound = 0
  /\ pickPc = "off"
  /\ pickArg = <<>>
  /\ pickNow = 0
  /\ pickOut = 0
  /\ lastPc = "off"
  /\ lastArg = <<>>
  /\ lastOut = <<>>
  /\ procPc = "off"
  /\ env = FALSE
  /\ ctx = NoCtx
  /\ checks = <<>>
  /\ reqPc = "off"
  /\ request = NoRequest
  /\ remote = <<>>
  /\ rawParam = <<>>
  /\ rawSummary = <<>>
  /\ response = NoResponse

\* part_001:56-59: the guard, then messages.create is issued
RunStart ==
  /\ runPc = "idle"
  /\ IF MessageRejected(runInput.message)
     THEN /\ runPc' = "done"
          /\ runResult' = EmptyMessageError
          /\ calls' = calls
     ELSE /\ runPc' = "append"
          /\ runResult' = runResult
          /\ calls' = Issue("appendMessage")
  /\ UNCHANGED <<runClock, runInput, runEnd, cur, reads>>
  /\ UNCHANGED <<authVars, sortVars, pickVars, lastVars, srvVars>>

\* messages.create settling with its failure swallowed.
AppendSettlesMutIgnoreFailure(ok, d) ==
  /\ runPc = "append"
  /\ runClock' = runClock + d
  /\ runPc' = "create"
  /\ calls' = Append(Settle(calls, IF ok THEN "ok" ELSE "fail"),
                     [op |-> "createRun", at |-> runClock', res |-> "pending"])
  /\ UNCHANGED <<runInput, runEnd, cur, reads, runResult>>
  /\ UNCHANGED <<authVars, sortVars, pickVars, lastVars, srvVars>>

\* part_001:59-61: messages.create settles, then runs.create is issued
AppendSettles(ok, d) ==
  /\ runPc = "append"
  /\ runClock' = runClock + d
  /\ IF ok
     THEN /\ runPc' = "create"
          /\ calls' = Append(Settle(calls, "ok"),
                             [op |-> "createRun", at |-> runClock',
                              res |-> "pending"])
          /\ runResult' = runResult
     ELSE /\ runPc' = "done"
          /\ calls' = Settle(calls, "fail")
          /\ runResult' = RemoteError("appendMessage")
  /\ UNCHANGED <<runInput, runEnd, cur, reads>>
  /\ UNCHANGED <<authVars, sortVars, pickVars, lastVars, srvVars>>

\* part_001:61-64: runs.create settles, the deadline is fixed, the first
\* runs.get is issued
CreateSettles(ok, d) ==
  /\ runPc = "create"
  /\ runClock' = runClock + d
  /\ IF ok
     THEN /\ runPc' = "get"
          /\ runEnd' = runClock' + runInput.timeoutMs
          /\ calls' = Append(Settle(calls, "ok"),
                             [op |-> "getRun", at |-> runClock',
                              res |-> "pending"])
          /\ runResult' = runResult
     ELSE /\ runPc' = "done"
          /\ runEnd' = runEnd
          /\ calls' = Settle(calls, "fail")
          /\ runResult' = RemoteError("createRun")
  /\ UNCHANGED <<runInput, cur, reads>>
  /\ UNCHANGED <<authVars, sortVars, pickVars, lastVars, srvVars>>

\* part_001:64-73: a runs.get settles; the loop condition is evaluated and the
\* invocation either goes to sleep or ends
GetSettles(ok, snap, d) ==
  /\ runPc = "get"
  /\ runClock' = runClock + d
  /\ IF ok
     THEN /\ cur' = snap
          /\ reads' = Append(reads, [status |-> snap.status, at |-> runClock'])
          /\ calls' = Settle(calls, "ok")
          /\ IF KeepPolling(snap.status, runClock', runEnd)
             THEN runPc' = "sleep" /\ runResult' = runResult
             ELSE runPc' = "done" /\ runResult' = Outcome(snap)
     ELSE /\ runPc' = "done"
          /\ calls' = Settle(calls, "fail")
          /\ runResult' = RemoteError("getRun")
          /\ UNCHANGED <<cur, reads>>
  /\ UNCHANGED <<runInput, runEnd>>
  /\ UNCHANGED <<authVars, sortVars, pickVars, lastVars, srvVars>>

\* part_001:66-67: the timer fires, the next runs.get is issued
SleepEnds(late) ==
  /\ runPc = "sleep"
  /\ runClock' = runClock + runInput.pollMs + late
  /\ runPc' = "get"
  /\ calls' = Append(calls, [op |-> "getRun", at |-> runClock',
                             res |-> "pending"])
  /\ UNCHANGED <<runInput, runEnd, cur, reads, runResult>>
  /\ UNCHANGED <<authVars, sortVars, pickVars, lastVars, srvVars>>

RunNext ==
  \/ RunStart
  \/ \E ok \in BOOLEAN : \E d \in Latencies : AppendSettles(ok, d)
  \/ \E ok \in BOOLEAN : \E d \in Latencies : CreateSettles(ok, d)
  \/ \E ok \in BOOLEAN : \E snap \in RunSnapshots : \E d \in Latencies :
        GetSettles(ok, snap, d)
  \/ \E late \in Lateness : SleepEnds(late)


(***************************************************************************)
(*   pickCreatedMs, byCreatedAsc and the sort of the merge route           *)
(*   (src/unnamed/part_002:48-69, 146)                                     *)
(* Numbers are counted in units of 10^6, so that 1e12 is 1000000 and       *)
(* the products stay within TLC's integers.                                *)
(***************************************************************************)

\* ---- bounds of the sort model
MaxLen == 3         \* messages in one merge
MaxSortTicks == 2   \* clock ticks (Date.now() changes) within one request

\* `1e12`, part_002:53
MsThreshold == 1000000

\* Date.now() when the request starts (about 1.7e12 ms)
SortEpoch == 1700000

CREATED_KEYS == <<"created_at", "createdAt", "created", "createTime", "timestamp">>

\* A field of a message: absent or null ("none"), a number ("num", its value),
\* a string a Date parses ("date", the parsed time in ms) or any other
\* string ("text": new Date(v).getTime() is NaN).
Absent == [k |-> "none", v |-> 0]
Num(n) == [k |-> "num", v |-> n]
DateStr(ms) == [k |-> "date", v |-> ms]
BadStr == [k |-> "text", v |-> 0]

\* An id: absent, or a string kept as the sequence of its characters.
NoId == [k |-> "none", s |-> <<>>]
Id(chars) == [k |-> "str", s |-> chars]

\* A message with none of the fields the code looks at; role, author and
\* from hold strings like the ids.
BareMessage ==
  [id |-> NoId, alt_id |-> NoId, created_at |-> Absent, createdAt |-> Absent,
   created |-> Absent, createTime |-> Absent, timestamp |-> Absent,
   role |-> NoId, author |-> NoId, from |-> NoId]

MessagePool ==
  {[BareMessage EXCEPT !.id = Id(<<"a">>), !.createdAt = Num(1700)],
   [BareMessage EXCEPT !.id = Id(<<"B">>), !.created_at = Num(1700000)],
   [BareMessage EXCEPT !.id = Id(<<"c">>)],
   [BareMessage EXCEPT !.alt_id = Id(<<"b">>)],
   [BareMessage EXCEPT !.id = Id(<<"a", "b">>),
                       !.createdAt = DateStr(SortEpoch + 1)],
   [BareMessage EXCEPT !.id = Id(<<"A", "a">>), !.created = BadStr,
                       !.timestamp = Num(SortEpoch + 2)]}

RECURSIVE SeqsUpTo(_, _)
SeqsUpTo(S, n) ==
  IF n = 0 THEN {<<>>}
  ELSE LET shorter == SeqsUpTo(S, n - 1)
       IN shorter \cup {Append(q, x) : q \in shorter, x \in S}

\* part_002:48-59. `now` is what Date.now() returns if the fallback is reached.
RECURSIVE ProbeKeys(_, _, _)
ProbeKeys(m, i, now) ==
  IF i > Len(CREATED_KEYS) THEN now
  ELSE LET f == m[CREATED_KEYS[i]]
       IN CASE f.k = "none" -> ProbeKeys(m, i + 1, now)
            [] f.k = "num" -> IF f.v < MsThreshold THEN f.v * 1000 ELSE f.v
            [] f.k = "date" -> f.v
            [] OTHER -> ProbeKeys(m, i + 1, now)

pickCreatedMs(m, now) == ProbeKeys(m, 1, now)

\* Whether pickCreatedMs(m) reads the clock.
UsesClock(m) == \A i \in 1..Len(CREATED_KEYS) : m[CREATED_KEYS[i]].k \in {"none", "text"}

\* `a?.id ?? a?._id ?? ""`, part_002:66-67
IdOf(m) ==
  IF m.id.k # "none" THEN m.id.s
  ELSE IF m.alt_id.k # "none" THEN m.alt_id.s
  ELSE <<>>

\* UTF-16 code units of the characters used in ids.
CodeUnit(c) ==
  CASE c = "A" -> 65 [] c = "B" -> 66 [] c = "C" -> 67
    [] c = "a" -> 97 [] c = "b" -> 98 [] c = "c" -> 99

\* Collation keys of the same characters: the letter first (primary weight),
\* then its case, lower case before upper case (tertiary weight).
Letter(c) ==
  CASE c \in {"a", "A"} -> 1 [] c \in {"b", "B"} -> 2 [] c \in {"c", "C"} -> 3

CaseRank(c) == IF c \in {"A", "B", "C"} THEN 1 ELSE 0

Sign(n) == IF n < 0 THEN -1 ELSE IF n > 0 THEN 1 ELSE 0

RECURSIVE CompareBy(_, _, _)
CompareBy(x, y, level) ==
  LET key(c) == CASE level = "unit" -> CodeUnit(c)
                  [] level = "letter" -> Letter(c)
                  [] OTHER -> CaseRank(c)
  IN IF x = <<>> /\ y = <<>> THEN 0
     ELSE IF x = <<>> THEN -1
     ELSE IF y = <<>> THEN 1
     ELSE IF key(Head(x)) # key(Head(y)) THEN Sign(key(Head(x)) - key(Head(y)))
     ELSE CompareBy(Tail(x), Tail(y), level)

\* Comparison by UTF-16 code units (what < does on strings).
CodeUnitCompare(x, y) == CompareBy(x, y, "unit")

\* String.prototype.localeCompare under the default (root) collation: the
\* letters of the whole strings decide first, case only between strings that
\* are equal up to case.
localeCompare(x, y) ==
  IF CompareBy(x, y, "letter") # 0 THEN CompareBy(x, y, "letter")
  ELSE CompareBy(x, y, "case")

\* part_002:61-69. nowA and nowB are the clock readings of the two
\* pickCreatedMs calls. The result is reduced to its sign.
byCreatedAsc(a, b, nowA, nowB) ==
  LET ta == pickCreatedMs(a, nowA)
      tb == pickCreatedMs(b, nowB)
  IN IF ta # tb THEN Sign(ta - tb)
     ELSE localeCompare(IdOf(a), IdOf(b))


\* The pivot written over the element at position left + 1, nothing shifted.
InsertAtMutOverwrite(arr, idx, left) ==
  [arr EXCEPT ![left + 1] = arr[idx + 1]]

\* The pivot moved from position idx + 1 to position left + 1 (1-based), the
\* elements between shifted up by one.
InsertAt(arr, idx, left) ==
  SubSeq(arr, 1, left) \o <<arr[idx + 1]>> \o SubSeq(arr, left + 1, idx)
    \o SubSeq(arr, idx + 2, Len(arr))

SortInit ==
  /\ sortPc = "idle"
  /\ sortClock = SortEpoch
  /\ sortInput \in SeqsUpTo(MessagePool, MaxLen)
  /\ sortArr = <<>>
  /\ sortIdx = 0
  /\ sortLeft = 0
  /\ sortRight = 0
  /\ firstOut = <<>>
  /\ sortRound = 1
  /\ cachedToken = "null"
  /\ tokenExpireAt = 0
  /\ authNow = 0
  /\ callers = <<>>
  /\ exchanges = 0
  /\ origin = NoOrigin
  /\ runPc = "off"
  /\ runClock = 0
  /\ runInput = <<>>
  /\ runEnd = 0
  /\ cur = NoSnapshot
  /\ calls = <<>>
  /\ reads = <<>>
  /\ runResult = NoResult
  /\ pickPc = "off"
  /\ pickArg = <<>>
  /\ pickNow = 0
  /\ pickOut = 0
  /\ lastPc = "off"
  /\ lastArg = <<>>
  /\ lastOut = <<>>
  /\ procPc = "off"
  /\ env = FALSE
  /\ ctx = NoCtx
  /\ checks = <<>>
  /\ reqPc = "off"
  /\ request = NoRequest
  /\ remote = <<>>
  /\ rawParam = <<>>
  /\ rawSummary = <<>>
  /\ response = NoResponse

\* `[...].sort(byCreatedAsc)`, part_002:146: the array is copied and sorted by
\* binary insertion (what Array.prototype.sort does on a short array), each
\* element from the second on being the pivot in turn. sortIdx, sortLeft and
\* sortRight are 0-based, as in the engine.
SortBegin ==
  /\ sortPc = "idle"
  /\ sortArr' = sortInput
  /\ IF Len(sortInput) < 2
     THEN sortPc' = "done" /\ sortIdx' = 0 /\ sortLeft' = 0 /\ sortRight' = 0
     ELSE sortPc' = "search" /\ sortIdx' = 1 /\ sortLeft' = 0 /\ sortRight' = 1
  /\ UNCHANGED <<sortClock, sortInput, firstOut, sortRound>>
  /\ UNCHANGED <<authVars, runVars, pickVars, lastVars, srvVars>>

\* One call of the comparator, byCreatedAsc(pivot, arr[mid]); the clock may
\* tick between its two pickCreatedMs calls.
SortCompare(tick) ==
  /\ sortPc = "search"
  /\ sortClock + tick <= SortEpoch + MaxSortTicks
  /\ sortClock' = sortClock + tick
  /\ LET mid == sortLeft + ((sortRight - sortLeft) \div 2)
         order == byCreatedAsc(sortArr[sortIdx + 1], sortArr[mid + 1],
                               sortClock, sortClock')
         left == IF order < 0 THEN sortLeft ELSE mid + 1
         right == IF order < 0 THEN mid ELSE sortRight
     IN IF left < right
        THEN /\ sortLeft' = left
             /\ sortRight' = right
             /\ UNCHANGED <<sortArr, sortIdx, sortPc>>
        ELSE /\ sortArr' = InsertAt(sortArr, sortIdx, left)
             /\ IF sortIdx + 1 < Len(sortArr)
                THEN /\ sortIdx' = sortIdx + 1
                     /\ sortLeft' = 0
                     /\ sortRight' = sortIdx + 1
                     /\ sortPc' = "search"
                ELSE /\ sortIdx' = 0
                     /\ sortLeft' = 0
                     /\ sortRight' = 0
                     /\ sortPc' = "done"
  /\ UNCHANGED <<sortInput, firstOut, sortRound>>
  /\ UNCHANGED <<authVars, runVars, pickVars, lastVars, srvVars>>

\* The ordered sequence is ordered once more, some time later.
SortAgain(tick) ==
  /\ sortPc = "done"
  /\ sortRound = 1
  /\ sortClock + tick <= SortEpoch + MaxSortTicks
  /\ sortClock' = sortClock + tick
  /\ firstOut' = sortArr
  /\ sortInput' = sortArr
  /\ sortRound' = 2
  /\ sortPc' = "idle"
  /\ UNCHANGED <<sortArr, sortIdx, sortLeft, sortRight>>
  /\ UNCHANGED <<authVars, runVars, pickVars, lastVars, srvVars>>

SortNext ==
  \/ SortBegin
  \/ \E tick \in {0, 1} : SortCompare(tick)
  \/ \E tick \in 0..MaxSortTicks : SortAgain(tick)

(***************************************************************************)
(*   pickCreatedMs applied to one message (src/unnamed/part_002:48-59)     *)
(***************************************************************************)

\* The number Infinity (what JSON.parse makes of 1e999): above every other
\* number, and equal to itself.
Infinity == 2147483647

\* What one candidate field may hold: nothing, a number of seconds, a number
\* of milliseconds, a date string, another string, Infinity.
FieldChoices ==
  {Absent, Num(1700), Num(SortEpoch + 5), DateStr(SortEpoch - 7), BadStr,
   Num(Infinity)}

PickMessages ==
  {[BareMessage EXCEPT !.created_at = f1, !.createdAt = f2, !.created = f3,
                       !.createTime = f4, !.timestamp = f5] :
     f1 \in FieldChoices, f2 \in FieldChoices, f3 \in FieldChoices,
     f4 \in FieldChoices, f5 \in FieldChoices}

PickInit ==
  /\ pickPc = "idle"
  /\ pickArg \in PickMessages
  /\ pickNow \in {SortEpoch, SortEpoch + 1}
  /\ pickOut = 0
  /\ cachedToken = "null"
  /\ tokenExpireAt = 0
  /\ authNow = 0
  /\ callers = <<>>
  /\ exchanges = 0
  /\ origin = NoOrigin
  /\ runPc = "off"
  /\ runClock = 0
  /\ runInput = <<>>
  /\ runEnd = 0
  /\ cur = NoSnapshot
  /\ calls = <<>>
  /\ reads = <<>>
  /\ runResult = NoResult
  /\ sortPc = "off"
  /\ sortClock = 0
  /\ sortInput = <<>>
  /\ sortArr = <<>>
  /\ sortIdx = 0
  /\ sortLeft = 0
  /\ sortRight = 0
  /\ firstOut = <<>>
  /\ sortRound = 0
  /\ lastPc = "off"
  /\ lastArg = <<>>
  /\ lastOut = <<>>
  /\ procPc = "off"
  /\ env = FALSE
  /\ ctx = NoCtx
  /\ checks = <<>>
  /\ reqPc = "off"
  /\ request = NoRequest
  /\ remote = <<>>
  /\ rawParam = <<>>
  /\ rawSummary = <<>>
  /\ response = NoResponse

\* One call pickCreatedMs(m), the clock standing at pickNow.
PickCreated ==
  /\ pickPc = "idle"
  /\ pickOut' = pickCreatedMs(pickArg, pickNow)
  /\ pickPc' = "done"
  /\ UNCHANGED <<pickArg, pickNow>>
  /\ UNCHANGED <<authVars, runVars, sortVars, lastVars, srvVars>>

PickNext == PickCreated

(***************************************************************************)
(*   getLastAssistantMessage applied to one array (src/src/index.ts:41-51) *)
(***************************************************************************)

\* ---- bound of the model
MaxMessages == 3

Assistant == <<"a", "s", "s", "i", "s", "t", "a", "n", "t">>
AssistantCapital == <<"A", "s", "s", "i", "s", "t", "a", "n", "t">>
AssistantUpper == <<"A", "S", "S", "I", "S", "T", "A", "N", "T">>
User == <<"u", "s", "e", "r">>

RoleMessages ==
  {[BareMessage EXCEPT !.id = Id(<<"x">>), !.role = Id(Assistant)],
   [BareMessage EXCEPT !.role = Id(User)],
   [BareMessage EXCEPT !.id = Id(<<"y">>), !.role = Id(AssistantCapital)],
   [BareMessage EXCEPT !.id = Id(<<"z">>), !.author = Id(AssistantUpper)],
   [BareMessage EXCEPT !.role = Id(User), !.author = Id(Assistant)],
   [BareMessage EXCEPT !.id = Id(<<"w">>), !.from = Id(Assistant)],
   [BareMessage EXCEPT !.role = Id(<<>>), !.author = Id(Assistant)],
   [BareMessage EXCEPT !.id = Id(<<"v">>)]}

\* The argument: an array of messages, or a value that is not an array.
NotAnArray == [isArray |-> FALSE, items |-> <<>>]
ArrayOf(q) == [isArray |-> TRUE, items |-> q]

\* The result: null, or the element at index `at` (1-based) of the array.
Null == [k |-> "null", at |-> 0, m |-> BareMessage]
Element(q, i) == [k |-> "msg", at |-> i, m |-> q[i]]

\* String.prototype.toLowerCase on the letters used in roles.
LowerOf(c) ==
  CASE c = "A" -> "a" [] c = "S" -> "s" [] c = "I" -> "i" [] c = "T" -> "t"
    [] c = "N" -> "n" [] c = "U" -> "u" [] c = "E" -> "e" [] c = "R" -> "r"
    [] OTHER -> c

toLowerCase(str) == [i \in 1..Len(str) |-> LowerOf(str[i])]

\* `m?.role ?? m?.author ?? m?.from ?? ""`, index.ts:45
RoleOf(m) ==
  IF m.role.k # "none" THEN m.role.s
  ELSE IF m.author.k # "none" THEN m.author.s
  ELSE IF m.from.k # "none" THEN m.from.s
  ELSE <<>>

\* The comparison without the toLowerCase.
IsAssistantMutCaseSensitive(m) == RoleOf(m) = Assistant

\* `String(role).toLowerCase() === "assistant"`, index.ts:46
IsAssistant(m) == toLowerCase(RoleOf(m)) = Assistant

\* The loop of index.ts:43-49 from index i (1-based) downwards, then the
\* fallback of index.ts:50.
RECURSIVE ScanBack(_, _)
ScanBack(messages, i) ==
  IF i = 0 THEN Element(messages, Len(messages))
  ELSE IF IsAssistant(messages[i]) THEN Element(messages, i)
  ELSE ScanBack(messages, i - 1)

\* index.ts:41-51
getLastAssistantMessage(messages) ==
  IF ~messages.isArray \/ Len(messages.items) = 0 THEN Null
  ELSE ScanBack(messages.items, Len(messages.items))

LastInit ==
  /\ lastPc = "idle"
  /\ lastArg \in {ArrayOf(q) : q \in SeqsUpTo(RoleMessages, MaxMessages)}
                   \cup {NotAnArray}
  /\ lastOut = Null
  /\ cachedToken = "null"
  /\ tokenExpireAt = 0
  /\ authNow = 0
  /\ callers = <<>>
  /\ exchanges = 0
  /\ origin = NoOrigin
  /\ runPc = "off"
  /\ runClock = 0
  /\ runInput = <<>>
  /\ runEnd = 0
  /\ cur = NoSnapshot
  /\ calls = <<>>
  /\ reads = <<>>
  /\ runResult = NoResult
  /\ sortPc = "off"
  /\ sortClock = 0
  /\ sortInput = <<>>
  /\ sortArr = <<>>
  /\ sortIdx = 0
  /\ sortLeft = 0
  /\ sortRight = 0
  /\ firstOut = <<>>
  /\ sortRound = 0
  /\ pickPc = "off"
  /\ pickArg = <<>>
  /\ pickNow = 0
  /\ pickOut = 0
  /\ procPc = "off"
  /\ env = FALSE
  /\ ctx = NoCtx
  /\ checks = <<>>
  /\ reqPc = "off"
  /\ request = NoRequest
  /\ remote = <<>>
  /\ rawParam = <<>>
  /\ rawSummary = <<>>
  /\ response = NoResponse

\* One call getLastAssistantMessage(messages).
LastAssistant ==
  /\ lastPc = "idle"
  /\ lastOut' = getLastAssistantMessage(lastArg)
  /\ lastPc' = "done"
  /\ UNCHANGED lastArg
  /\ UNCHANGED <<authVars, runVars, sortVars, pickVars, srvVars>>

LastNext == LastAssistant

(***************************************************************************)
(*   The process: bootstrap and the listener (src/src/index.ts:104-152),   *)
(*   the merge route POST /node/agent/messages (src/unnamed/part_002).     *)
(*   Requests are handled one at a time: the handlers share nothing but    *)
(*   ctx, which no handler writes.                                         *)
(***************************************************************************)

\* `type AgentType`, index.ts:8; the ctx slot each one is bound to.
Agents == {"params", "summary", "route"}

AllBound ==
  [ready |-> TRUE, agentParams |-> TRUE, agentSummary |-> TRUE,
   agentRouting |-> TRUE]

\* index.ts:27-33 (part_002:35-41 is the same test without the routing agent).
ensureReady(c) == c.ready /\ c.agentParams /\ c.agentSummary /\ c.agentRouting

\* Promise.all of the readiness checks resolving on the first success
\* instead of on all of them.
AllCheckedMutAny(ch) == \E a \in Agents : ch[a] = "ok"

\* `await Promise.all([...ensureAgentReady()])` has resolved, index.ts:118-122
AllChecked(ch) == \A a \in Agents : ch[a] = "ok"

\* What a rejected remote call throws: an error with a message, or a value
\* without one.
Failures == {[message |-> "remote unavailable"], [message |-> "undefined"]}

\* `e?.message ?? "Internal Server Error"`, index.ts:100, part_002:159
ErrorText(e) ==
  IF e.message = "undefined" THEN "Internal Server Error" ELSE e.message

\* The answer of a handler: the status and the fields of its JSON body.
Answer(status, error) ==
  [status |-> status, error |-> error, threadId |-> "undefined",
   lastAssistant |-> <<>>, mergedCount |-> 0, messages |-> <<>>]

\* A thread id of a request body: missing, empty, or an id.
ThreadIdChoices == {"undefined", "", "tA"}

\* `limit` of a request body: missing, a string, or a number num/den.
NoLimit == [k |-> "none", num |-> 0, den |-> 1]
StrLimit == [k |-> "str", num |-> 2, den |-> 1]
NumLimit(n, d) == [k |-> "num", num |-> n, den |-> d]

LimitChoices ==
  {NoLimit, StrLimit, NumLimit(-1, 1), NumLimit(0, 1), NumLimit(1, 2),
   NumLimit(1, 1), NumLimit(2, 1), NumLimit(5, 1)}

MessagesBodies ==
  [paramThreadId : ThreadIdChoices, summaryThreadId : ThreadIdChoices,
   limit : LimitChoices]

\* What listMessages returns (part_001:40-53): objects with id, role, text
\* and createdAt, the last one a date or missing.
ThreadMessages ==
  {[BareMessage EXCEPT !.id = Id(<<"a">>), !.createdAt = DateStr(SortEpoch - 3)],
   [BareMessage EXCEPT !.id = Id(<<"B">>), !.createdAt = DateStr(SortEpoch - 3)],
   [BareMessage EXCEPT !.id = Id(<<"b">>), !.createdAt = DateStr(SortEpoch - 5)],
   [BareMessage EXCEPT !.id = Id(<<"c">>)]}

\* ToIntegerOrInfinity of the number n/d (d > 0): truncation towards zero.
Truncate(n, d) == IF n >= 0 THEN n \div d ELSE -((-n) \div d)

\* Array.prototype.slice(start) with start already an integer.
SliceFrom(arr, start) ==
  LET k == IF start < 0
           THEN (IF Len(arr) + start > 0 THEN Len(arr) + start ELSE 0)
           ELSE (IF start < Len(arr) THEN start ELSE Len(arr))
  IN SubSeq(arr, k + 1, Len(arr))

\* `typeof limit === "number" && limit > 0 ? merged.slice(-limit) : merged`,
\* part_002:148-149
Limited(arr, limit) ==
  IF limit.k = "num" /\ limit.num > 0
  THEN SliceFrom(arr, Truncate(-limit.num, limit.den))
  ELSE arr

\* The second thread's history left out of the merge.
MergeInputMutFirstOnly(a, b) == a

\* `[...(rawParam || []), ...(rawSummary || [])]`, part_002:146
MergeInput(a, b) == a \o b

\* A listMessages call still in flight for the service svc.
Pending(svc) ==
  \E i \in 1..Len(remote) :
    remote[i].op = "listMessages" /\ remote[i].svc = svc /\ remote[i].res = "pending"

\* A remote call as it is issued: the operation, the service of ctx it goes
\* through, how it settled and, if it was rejected, the message of the error.
Call(op, svc) == [op |-> op, svc |-> svc, res |-> "pending", err |-> "none"]

SettleCall(svc, res, err) ==
  [i \in 1..Len(remote) |->
     IF remote[i].svc = svc /\ remote[i].res = "pending"
     THEN [remote[i] EXCEPT !.res = res, !.err = err] ELSE remote[i]]

ServerInit ==
  /\ procPc = "boot"
  /\ env \in BOOLEAN
  /\ ctx = NoCtx
  /\ checks = [a \in Agents |-> "none"]
  /\ reqPc = "none"
  /\ request = NoRequest
  /\ remote = <<>>
  /\ rawParam = <<>>
  /\ rawSummary = <<>>
  /\ response = NoResponse
  /\ cachedToken = "null"
  /\ tokenExpireAt = 0
  /\ authNow = 0
  /\ callers = <<>>
  /\ exchanges = 0
  /\ origin = NoOrigin
  /\ runPc = "off"
  /\ runClock = 0
  /\ runInput = <<>>
  /\ runEnd = 0
  /\ cur = NoSnapshot
  /\ calls = <<>>
  /\ reads = <<>>
  /\ runResult = NoResult
  /\ sortPc = "off"
  /\ sortClock = 0
  /\ sortInput = <<>>
  /\ sortArr = <<>>
  /\ sortIdx = 0
  /\ sortLeft = 0
  /\ sortRight = 0
  /\ firstOut = <<>>
  /\ sortRound = 0
  /\ pickPc = "off"
  /\ pickArg = <<>>
  /\ pickNow = 0
  /\ pickOut = 0
  /\ lastPc = "off"
  /\ lastArg = <<>>
  /\ lastOut = <<>>

\* index.ts:143-145, 104-122: the startup function calls bootstrap, which
\* throws on a missing setting (the process exits, index.ts:148-150) or
\* starts the readiness check of every agent.
Bootstrap ==
  /\ procPc = "boot"
  /\ IF env
     THEN /\ procPc' = "checking"
          /\ checks' = [a \in Agents |-> "pending"]
     ELSE /\ procPc' = "exited"
          /\ checks' = checks
  /\ UNCHANGED <<env, ctx, reqPc, request, remote, rawParam, rawSummary,
                 response>>
  /\ UNCHANGED <<authVars, runVars, sortVars, pickVars, lastVars>>

\* One ensureAgentReady settles; a rejection rejects the Promise.all and the
\* process exits (index.ts:148-150).
AgentChecked(a, ok) ==
  /\ procPc = "checking"
  /\ checks[a] = "pending"
  /\ checks' = [checks EXCEPT ![a] = IF ok THEN "ok" ELSE "fail"]
  /\ procPc' = IF ok THEN procPc ELSE "exited"
  /\ UNCHANGED <<env, ctx, reqPc, request, remote, rawParam, rawSummary,
                 response>>
  /\ UNCHANGED <<authVars, runVars, sortVars, pickVars, lastVars>>

\* index.ts:124-133: the Promise.all has resolved; the services are bound
\* and ready is set.
BootstrapBinds ==
  /\ procPc = "checking"
  /\ AllChecked(checks)
  /\ ctx' = AllBound
  /\ procPc' = "bound"
  /\ UNCHANGED <<env, checks, reqPc, request, remote, rawParam, rawSummary,
                 response>>
  /\ UNCHANGED <<authVars, runVars, sortVars, pickVars, lastVars>>

\* index.ts:146-150: app.listen; if it throws the process exits.
Listen(ok) ==
  /\ procPc = "bound"
  /\ procPc' = IF ok THEN "listening" ELSE "exited"
  /\ UNCHANGED <<env, ctx, checks, reqPc, request, remote, rawParam,
                 rawSummary, response>>
  /\ UNCHANGED <<authVars, runVars, sortVars, pickVars, lastVars>>

\* index.ts:136-141: SIGINT or SIGTERM at any time between two steps.
Shutdown ==
  /\ procPc \in {"boot", "checking", "bound", "listening"}
  /\ sortPc = "off"
  /\ procPc' = "exited"
  /\ UNCHANGED <<env, ctx, checks, reqPc, request, remote, rawParam,
                 rawSummary, response>>
  /\ UNCHANGED <<authVars, runVars, sortVars, pickVars, lastVars>>

\* The handler of the current request has answered and returned; its locals
\* are gone and the next request can be dispatched.
RequestEnds ==
  /\ procPc = "listening"
  /\ reqPc = "done"
  /\ reqPc' = "none"
  /\ request' = NoRequest
  /\ remote' = <<>>
  /\ rawParam' = <<>>
  /\ rawSummary' = <<>>
  /\ response' = NoResponse
  /\ cur' = NoSnapshot
  /\ sortPc' = "off"
  /\ sortClock' = 0
  /\ sortInput' = <<>>
  /\ sortArr' = <<>>
  /\ UNCHANGED <<sortIdx, sortLeft, sortRight, firstOut, sortRound>>
  /\ UNCHANGED <<procPc, env, ctx, checks>>
  /\ UNCHANGED <<runPc, runClock, runInput, runEnd, calls, reads, runResult>>
  /\ UNCHANGED <<authVars, pickVars, lastVars>>

\* part_002:131-143: a request for the merge route is dispatched. The handler
\* runs up to `await Promise.all(...)`.
MessagesReceive(body) ==
  /\ procPc = "listening"
  /\ reqPc = "none"
  /\ request' = [route |-> "messages", body |-> body]
  /\ IF ~ensureReady(ctx)
     THEN /\ response' = Answer(503, "Agent not ready")
          /\ reqPc' = "done"
          /\ remote' = <<>>
     ELSE IF ~Truthy(body.paramThreadId) /\ ~Truthy(body.summaryThreadId)
     THEN /\ response' = Answer(400, "paramThreadId or summaryThreadId required")
          /\ reqPc' = "done"
          /\ remote' = <<>>
     ELSE /\ response' = NoResponse
          /\ reqPc' = "lists"
          /\ remote' =
               (IF Truthy(body.paramThreadId)
                THEN <<Call("listMessages", "agentParams")>>
                ELSE <<>>)
               \o (IF Truthy(body.summaryThreadId)
                   THEN <<Call("listMessages", "agentSummary")>>
                   ELSE <<>>)
  /\ UNCHANGED <<procPc, env, ctx, checks, rawParam, rawSummary>>
  /\ UNCHANGED <<authVars, runVars, sortVars, pickVars, lastVars>>

\* part_002:140-146: one listMessages resolves. When nothing is pending any
\* more the handler resumes: the two histories are concatenated and the sort
\* starts.
ListResolves(svc, msgs) ==
  /\ procPc = "listening"
  /\ reqPc = "lists"
  /\ Pending(svc)
  /\ remote' = SettleCall(svc, "ok", "none")
  /\ rawParam' = IF svc = "agentParams" THEN msgs ELSE rawParam
  /\ rawSummary' = IF svc = "agentSummary" THEN msgs ELSE rawSummary
  /\ Len(rawParam') + Len(rawSummary') <= MaxLen
  /\ IF \E i \in 1..Len(remote') : remote'[i].res = "pending"
     THEN /\ reqPc' = reqPc
          /\ UNCHANGED <<sortPc, sortClock, sortInput>>
     ELSE /\ reqPc' = "sorting"
          /\ sortPc' = "idle"
          /\ sortClock' = SortEpoch
          /\ sortInput' = MergeInput(rawParam', rawSummary')
  /\ UNCHANGED <<sortArr, sortIdx, sortLeft, sortRight, firstOut, sortRound>>
  /\ UNCHANGED <<procPc, env, ctx, checks, request, response>>
  /\ UNCHANGED <<authVars, runVars, pickVars, lastVars>>

\* part_002:140-143, 157-160: one listMessages is rejected; the Promise.all
\* rejects and the handler answers 500.
ListRejects(svc, e) ==
  /\ procPc = "listening"
  /\ reqPc = "lists"
  /\ Pending(svc)
  /\ remote' = SettleCall(svc, "fail", e.message)
  /\ response' = Answer(500, ErrorText(e))
  /\ reqPc' = "done"
  /\ UNCHANGED <<procPc, env, ctx, checks, request, rawParam, rawSummary>>
  /\ UNCHANGED <<authVars, runVars, sortVars, pickVars, lastVars>>

\* part_002:148-156: the sort has returned `merged` (sortArr); the limit is
\* applied and the answer is sent.
MessagesRespond ==
  /\ reqPc = "sorting"
  /\ sortPc = "done"
  /\ LET limited == Limited(sortArr, request.body.limit)
     IN response' = [Answer(200, "none") EXCEPT
                       !.mergedCount = Len(limited), !.messages = limited]
  /\ reqPc' = "done"
  /\ sortPc' = "off"
  /\ UNCHANGED <<sortClock, sortInput, sortArr, sortIdx, sortLeft, sortRight,
                 firstOut, sortRound>>
  /\ UNCHANGED <<procPc, env, ctx, checks, request, remote, rawParam,
                 rawSummary>>
  /\ UNCHANGED <<authVars, runVars, pickVars, lastVars>>


(***************************************************************************)
(*   The send route POST /node/agent/send (src/src/index.ts:69-102).       *)
(*   appendAndRun runs with its default interval and timeout; whether the  *)
(*   deadline has passed when a status arrives is left open.               *)
(***************************************************************************)

\* ---- bound of the model: getRun calls followed within one request
MaxSendReads == 2

Params == <<"p", "a", "r", "a", "m", "s">>
Summary == <<"s", "u", "m", "m", "a", "r", "y">>
Route == <<"r", "o", "u", "t", "e">>

\* `agentType` of a request body: missing or a string.
AgentTypeChoices ==
  {[present |-> FALSE, text |-> <<>>],
   [present |-> TRUE, text |-> <<>>],
   [present |-> TRUE, text |-> Params],
   [present |-> TRUE, text |-> Summary],
   [present |-> TRUE, text |-> Route],
   [present |-> TRUE, text |-> <<" ">> \o Route \o <<" ">>],
   [present |-> TRUE, text |-> <<"p", "a", "r", "a", "m">>]}

SendBodies ==
  [agentType : AgentTypeChoices, message : MessageChoices,
   threadId : ThreadIdChoices]

\* `String(x ?? "").trim()`, index.ts:72, 77
Trimmed(x) == IF x.present THEN Trim(x.text) ELSE <<>>

\* The route with no test of the agent type.
KnownAgentTypeMutAny(t) == TRUE

\* index.ts:73
KnownAgentType(t) == t \in {Params, Summary, Route}

\* index.ts:35-39
getSvc(t) ==
  IF t = Params THEN "agentParams"
  ELSE IF t = Summary THEN "agentSummary"
  ELSE "agentRouting"

\* What the send route's listMessages may return.
SendHistories ==
  {<<>>,
   <<[BareMessage EXCEPT !.role = Id(User)]>>,
   <<[BareMessage EXCEPT !.role = Id(User)],
     [BareMessage EXCEPT !.id = Id(<<"x">>), !.role = Id(Assistant)]>>}

\* The service the current send request goes through.
SendSvc == getSvc(Trimmed(request.body.agentType))

SettleLast(res, err) ==
  [remote EXCEPT ![Len(remote)] = [@ EXCEPT !.res = res, !.err = err]]

\* index.ts:69-93: a request for the send route is dispatched. The handler
\* runs up to its first await: createThread, or the messages.create of
\* appendAndRun (whose own argument check passes, the message being trimmed
\* and not empty).
SendReceive(body) ==
  /\ procPc = "listening"
  /\ reqPc = "none"
  /\ request' = [route |-> "send", body |-> body,
                 threadId |-> body.threadId]
  /\ LET agentType == Trimmed(body.agentType)
         message == Trimmed(body.message)
     IN IF ~ensureReady(ctx)
        THEN /\ response' = Answer(503, "Agent not ready")
             /\ reqPc' = "done"
             /\ remote' = <<>>
        ELSE IF ~KnownAgentType(agentType)
        THEN /\ response' =
                  Answer(400, "agentType must be 'params' | 'summary' | 'route'")
             /\ reqPc' = "done"
             /\ remote' = <<>>
        ELSE IF message = <<>>
        THEN /\ response' = Answer(400, "Message required")
             /\ reqPc' = "done"
             /\ remote' = <<>>
        ELSE IF ~Truthy(body.threadId)
        THEN /\ response' = NoResponse
             /\ reqPc' = "thread"
             /\ remote' = <<Call("createThread", getSvc(agentType))>>
        ELSE /\ response' = NoResponse
             /\ reqPc' = "append"
             /\ remote' = <<Call("appendMessage", getSvc(agentType))>>
  /\ UNCHANGED <<procPc, env, ctx, checks, rawParam, rawSummary>>
  /\ UNCHANGED <<authVars, runVars, sortVars, pickVars, lastVars>>

\* index.ts:86-93: createThread settles; appendAndRun is called with the new
\* thread's id.
ThreadSettles(ok, e) ==
  /\ procPc = "listening"
  /\ reqPc = "thread"
  /\ IF ok
     THEN /\ remote' = Append(SettleLast("ok", "none"),
                              Call("appendMessage", SendSvc))
          /\ request' = [request EXCEPT !.threadId = "tNew"]
          /\ reqPc' = "append"
          /\ response' = response
     ELSE /\ remote' = SettleLast("fail", e.message)
          /\ request' = request
          /\ reqPc' = "done"
          /\ response' = Answer(500, ErrorText(e))
  /\ UNCHANGED <<procPc, env, ctx, checks, rawParam, rawSummary>>
  /\ UNCHANGED <<authVars, runVars, sortVars, pickVars, lastVars>>

\* part_001:59-61 within index.ts:93
SendAppendSettles(ok, e) ==
  /\ procPc = "listening"
  /\ reqPc = "append"
  /\ IF ok
     THEN /\ remote' = Append(SettleLast("ok", "none"),
                              Call("createRun", SendSvc))
          /\ reqPc' = "create"
          /\ response' = response
     ELSE /\ remote' = SettleLast("fail", e.message)
          /\ reqPc' = "done"
          /\ response' = Answer(500, ErrorText(e))
  /\ UNCHANGED <<procPc, env, ctx, checks, request, rawParam, rawSummary>>
  /\ UNCHANGED <<authVars, runVars, sortVars, pickVars, lastVars>>

\* part_001:61-64 within index.ts:93
SendCreateSettles(ok, e) ==
  /\ procPc = "listening"
  /\ reqPc = "create"
  /\ IF ok
     THEN /\ remote' = Append(SettleLast("ok", "none"), Call("getRun", SendSvc))
          /\ reqPc' = "get"
          /\ response' = response
     ELSE /\ remote' = SettleLast("fail", e.message)
          /\ reqPc' = "done"
          /\ response' = Answer(500, ErrorText(e))
  /\ UNCHANGED <<procPc, env, ctx, checks, request, rawParam, rawSummary>>
  /\ UNCHANGED <<authVars, runVars, sortVars, pickVars, lastVars>>

\* part_001:64-73 within index.ts:93-94: a runs.get settles. While the status
\* is not terminal and the deadline has not passed (inTime) the loop sleeps
\* and reads again; a failed run makes appendAndRun throw; otherwise it
\* returns and listMessages is issued.
SendGetSettles(ok, snap, inTime, e) ==
  /\ procPc = "listening"
  /\ reqPc = "get"
  /\ LET n == Cardinality({i \in 1..Len(remote) : remote[i].op = "getRun"})
     IN IF ~ok
        THEN /\ remote' = SettleLast("fail", e.message)
             /\ reqPc' = "done"
             /\ response' = Answer(500, ErrorText(e))
             /\ cur' = cur
        ELSE /\ cur' = snap
             /\ IF NonTerminal(snap.status) /\ inTime
                THEN /\ n < MaxSendReads
                     /\ remote' = Append(SettleLast("ok", "none"),
                                         Call("getRun", SendSvc))
                     /\ reqPc' = "get"
                     /\ response' = response
                ELSE IF Outcome(snap).kind = "throw"
                THEN /\ remote' = SettleLast("ok", "none")
                     /\ reqPc' = "done"
                     /\ response' =
                          Answer(500, "run failed: " \o Outcome(snap).payload)
                ELSE /\ remote' = Append(SettleLast("ok", "none"),
                                         Call("listMessages", SendSvc))
                     /\ reqPc' = "list"
                     /\ response' = response
  /\ UNCHANGED <<procPc, env, ctx, checks, request, rawParam, rawSummary>>
  /\ UNCHANGED <<runPc, runClock, runInput, runEnd, calls, reads, runResult>>
  /\ UNCHANGED <<authVars, sortVars, pickVars, lastVars>>

\* index.ts:94-97: listMessages settles; the last assistant message is picked
\* and the answer is sent.
SendListSettles(ok, msgs, e) ==
  /\ procPc = "listening"
  /\ reqPc = "list"
  /\ IF ok
     THEN /\ remote' = SettleLast("ok", "none")
          /\ response' =
               [Answer(200, "none") EXCEPT
                  !.threadId = request.threadId,
                  !.lastAssistant = getLastAssistantMessage(ArrayOf(msgs))]
     ELSE /\ remote' = SettleLast("fail", e.message)
          /\ response' = Answer(500, ErrorText(e))
  /\ reqPc' = "done"
  /\ UNCHANGED <<procPc, env, ctx, checks, request, rawParam, rawSummary>>
  /\ UNCHANGED <<authVars, runVars, sortVars, pickVars, lastVars>>

ServerNext ==
  \/ Bootstrap
  \/ \E a \in Agents : \E ok \in BOOLEAN : AgentChecked(a, ok)
  \/ BootstrapBinds
  \/ \E ok \in BOOLEAN : Listen(ok)
  \/ Shutdown
  \/ \E body \in MessagesBodies : MessagesReceive(body)
  \/ \E svc \in {"agentParams", "agentSummary"} :
       \E msgs \in SeqsUpTo(ThreadMessages, MaxLen) : ListResolves(svc, msgs)
  \/ \E svc \in {"agentParams", "agentSummary"} : \E e \in Failures :
       ListRejects(svc, e)
  \/ RequestEnds
  \/ MessagesRespond
  \/ SortBegin
  \/ \E tick \in {0, 1} : SortCompare(tick)
  \/ \E body \in SendBodies : SendReceive(body)
  \/ \E ok \in BOOLEAN : \E e \in Failures : ThreadSettles(ok, e)
  \/ \E ok \in BOOLEAN : \E e \in Failures : SendAppendSettles(ok, e)
  \/ \E ok \in BOOLEAN : \E e \in Failures : SendCreateSettles(ok, e)
  \/ \E ok \in BOOLEAN : \E snap \in RunSnapshots : \E inTime \in BOOLEAN :
       \E e \in Failures : SendGetSettles(ok, snap, inTime, e)
  \/ \E ok \in BOOLEAN : \E msgs \in SendHistories : \E e \in Failures :
       SendListSettles(ok, msgs, e)

(***************************************************************************)
(*                          The specifications                             *)
(***************************************************************************)

AuthSpec == AuthInit /\ [][AuthNext]_vars

RunSpec == RunInit /\ [][RunNext]_vars

OrderSpec == SortInit /\ [][SortNext]_vars

PickSpec == PickInit /\ [][PickNext]_vars

LastSpec == LastInit /\ [][LastNext]_vars

ServerSpec == ServerInit /\ [][ServerNext]_vars


(***************************************************************************)
(*                         getToken: C1, C2, C3                            *)
(***************************************************************************)

\* The invocation of caller c has started (it is suspended in the exchange or
\* has returned).
Called(c) == c.pc = "awaiting" \/ c.ret.kind # "none"

\* `tokenExpireAt > now + 60` as the claim states it; a stored string (see
\* StrExpiry) compares as a number above every clock reading.
BeyondMargin(c) == c.seenExp = StrExpiry \/ c.seenExp > c.now + Margin

\* C1: getToken returns the cached pair only if tokenExpireAt > now + 60 held
\* when it was called, and then issues no exchange; in every other call a
\* credential exchange is attempted.
C1_CachedOnlyBeyondMargin ==
  \A p \in Callers :
    LET c == callers[p]
    IN /\ c.ret.kind = "cached" => BeyondMargin(c) /\ c.xid = 0
       /\ Called(c) /\ ~BeyondMargin(c) => c.xid # 0

\* One caller is served from the cache while the other, called with exactly
\* 60 seconds of validity left, is in its exchange.
C1_Witness ==
  \E p, q \in Callers :
    /\ callers[p].ret.kind = "cached"
    /\ callers[q].pc = "awaiting"
    /\ callers[q].seenExp = callers[q].now + Margin

\* C2: a getToken call whose refresh fails (it returns null) leaves
\* cachedToken and tokenExpireAt as they were.
C2_FailedRefreshKeepsCache ==
  [][\A p \in Callers :
       (callers[p].pc = "awaiting" /\ callers'[p].ret.kind = "null")
         => (cachedToken' = cachedToken /\ tokenExpireAt' = tokenExpireAt)]_vars

\* C3: a transport failure or a failed or malformed response makes getToken
\* return null, and every non-null result carries a real access token.
C3_NullOnFailureRealTokenOtherwise ==
  \A p \in Callers :
    LET c == callers[p]
    IN /\ c.resp \in {"reject", "nodata", "notoken", "strexp"}
            => c.ret.kind = "null"
       /\ c.ret.kind \in {"cached", "fresh"} => Truthy(c.ret.accessToken)

(***************************************************************************)
(*                      appendAndRun: C4 .. C8                             *)
(***************************************************************************)

Last(q) == q[Len(q)]

GetRunCalls == Cardinality({i \in 1..Len(calls) : calls[i].op = "getRun"})

\* The invocation has ended by the code after the loop (not by a remote call
\* that failed, nor by the argument check).
EndedAfterLoop ==
  /\ runPc = "done"
  /\ reads # <<>>
  /\ calls[Len(calls)].res = "ok"

\* Empty, absent or made of white space only.
Blank(m) == ~m.present \/ \A i \in 1..Len(m.text) : m.text[i] \in WhiteSpace

\* C4: with an empty or whitespace-only message appendAndRun fails with the
\* "message is empty" error and issues no remote call at all.
C4_BlankMessageNoRemoteCall ==
  (runPc # "off" /\ Blank(runInput.message)) =>
    /\ calls = <<>>
    /\ reads = <<>>
    /\ runPc \in {"idle", "done"}
    /\ runPc = "done" => runResult = EmptyMessageError

C4_Witness ==
  /\ runPc = "done"
  /\ runInput.message = [present |-> TRUE, text |-> <<"\t", " ">>]
  /\ runResult = EmptyMessageError
  /\ calls = <<>>

\* C5: every status read but the last was non-terminal and made before the
\* deadline, so no read follows a terminal status; the reads are exactly the
\* getRun calls; and the invocation ends only on a terminal status or at the
\* deadline, with an outcome that reflects the last status read. So n
\* non-terminal reads and then a terminal one, all before the deadline, give
\* exactly n + 1 getRun calls.
C5_PollsUntilTerminal ==
  runPc # "off" =>
    /\ \A i \in 1..(Len(reads) - 1) :
         NonTerminal(reads[i].status) /\ reads[i].at < runEnd
    /\ GetRunCalls = Len(reads) + (IF runPc = "get" THEN 1 ELSE 0)
                       + (IF runResult = RemoteError("getRun") THEN 1 ELSE 0)
    /\ EndedAfterLoop =>
         /\ ~NonTerminal(Last(reads).status) \/ Last(reads).at >= runEnd
         /\ Last(reads).status # "failed" =>
              runResult = [kind |-> "return", status |-> Last(reads).status,
                           payload |-> "none"]
         /\ Last(reads).status = "failed" => runResult.kind = "throw"

\* in_progress, in_progress, completed: three reads, status completed.
C5_Witness ==
  /\ runPc = "done"
  /\ Len(reads) = 3
  /\ reads[1].status = "in_progress"
  /\ reads[2].status = "in_progress"
  /\ reads[3].status = "completed"
  /\ reads[3].at < runEnd
  /\ GetRunCalls = 3
  /\ runResult.kind = "return"
  /\ runResult.status = "completed"

AllNonTerminal == \A i \in 1..Len(reads) : NonTerminal(reads[i].status)

\* The remote answers at once and every timer fires on time.
Instantaneous ==
  \A i \in 1..Len(reads) :
    reads[i].at = (runEnd - runInput.timeoutMs) + (i - 1) * runInput.pollMs

\* C6: if every status read was queued or in_progress, appendAndRun ends by
\* returning the last status read (no exception), after at most
\* ceil(timeoutMs / pollMs) polls following the first read; with
\* timeoutMs = 3000, pollMs = 1000 and an instantaneous remote that is 3 polls.
C6_TimeoutReturnsLastStatus ==
  runPc # "off" =>
    /\ (Len(reads) - 1) * runInput.pollMs < runInput.timeoutMs + runInput.pollMs
    /\ (EndedAfterLoop /\ AllNonTerminal) =>
         /\ runResult = [kind |-> "return", status |-> Last(reads).status,
                         payload |-> "none"]
         /\ Last(reads).at >= runEnd
         /\ (runInput.timeoutMs = 3 /\ runInput.pollMs = 1 /\ Instantaneous)
              => Len(reads) - 1 = 3

C6_Witness ==
  /\ runPc = "done"
  /\ runInput.timeoutMs = 3
  /\ runInput.pollMs = 1
  /\ Instantaneous
  /\ Len(reads) = 4
  /\ \A i \in 1..4 : reads[i].status = "queued"
  /\ runResult = [kind |-> "return", status |-> "queued", payload |-> "none"]

\* C7: appendAndRun never returns normally with status failed; once a read
\* shows failed the invocation ends by throwing the "run failed" error that
\* carries the lastError of that read.
C7_FailedRunThrows ==
  /\ runResult.kind = "return" => runResult.status # "failed"
  /\ (reads # <<>> /\ Last(reads).status = "failed") =>
       /\ runPc = "done"
       /\ cur.status = "failed"
       /\ cur.lastError \in ErrorPayloads
       /\ runResult = [kind |-> "throw", status |-> "run failed",
                       payload |-> cur.lastError]

\* failed is seen on a poll that coincides with the deadline.
C7_Witness ==
  /\ runPc = "done"
  /\ Len(reads) >= 2
  /\ Last(reads).status = "failed"
  /\ Last(reads).at >= runEnd
  /\ runResult.payload = "err_b"

\* C8: the remote calls of one invocation are appendMessage, createRun and
\* then getRun calls, in this order; a call is issued only after the call
\* before it has returned successfully, and a call that fails is the last
\* one: the invocation ends by throwing, nothing is retried.
C8_StrictOrderNoRetry ==
  /\ \A i \in 1..Len(calls) :
       /\ calls[i].op = (IF i = 1 THEN "appendMessage"
                         ELSE IF i = 2 THEN "createRun" ELSE "getRun")
       /\ i < Len(calls) => calls[i].res = "ok" /\ calls[i].at <= calls[i + 1].at
       /\ calls[i].res = "fail" =>
            runPc = "done" /\ runResult = RemoteError(calls[i].op)
       /\ calls[i].res = "pending" => runPc \in {"append", "create", "get"}
  /\ runPc \in {"append", "create", "get", "sleep"} => calls # <<>>

\* createRun failed: no status was read.
C8_Witness ==
  /\ runPc = "done"
  /\ Len(calls) = 2
  /\ calls[1].res = "ok"
  /\ calls[2].res = "fail"
  /\ reads = <<>>


(***************************************************************************)
(*                     the ordering: C9, C10                               *)
(***************************************************************************)

\* The message carries a creation time of its own, so that the time inferred
\* for it does not depend on when it is inferred.
Timestamped(m) == ~UsesClock(m)

\* C9: the ordered output is ascending by inferred creation time, and two
\* messages with the same inferred time are in ascending lexicographic
\* (code unit) order of their ids. Stated for the messages that carry a
\* creation time of their own.
C9_AscendingTiesById ==
  sortPc = "done" =>
    \A i, j \in 1..Len(sortArr) :
      (i < j /\ Timestamped(sortArr[i]) /\ Timestamped(sortArr[j])) =>
        LET ti == pickCreatedMs(sortArr[i], sortClock)
            tj == pickCreatedMs(sortArr[j], sortClock)
        IN /\ ti <= tj
           /\ ti = tj => CodeUnitCompare(IdOf(sortArr[i]), IdOf(sortArr[j])) <= 0

\* C10: ordering the ordered sequence again gives the same sequence.
C10_Idempotent ==
  (sortPc = "done" /\ sortRound = 2) => sortArr = firstOut


(***************************************************************************)
(*                    the merge route: C11, C12, C15                       *)
(***************************************************************************)

\* The merge route has answered with a merged sequence.
Merged ==
  /\ reqPc = "done"
  /\ request.route = "messages"
  /\ response.status = 200

\* x put into the ordered sequence q behind every element it does not
\* precede (byCreatedAsc read at the clock value now).
RECURSIVE InsertOrdered(_, _, _)
InsertOrdered(q, x, now) ==
  IF q = <<>> THEN <<x>>
  ELSE IF byCreatedAsc(x, q[Len(q)], now, now) >= 0 THEN Append(q, x)
  ELSE Append(InsertOrdered(SubSeq(q, 1, Len(q) - 1), x, now), q[Len(q)])

\* orderMessages as a function: the stable sort by byCreatedAsc with the
\* clock standing at now.
RECURSIVE OrderedAt(_, _)
OrderedAt(q, now) ==
  IF q = <<>> THEN <<>>
  ELSE InsertOrdered(OrderedAt(SubSeq(q, 1, Len(q) - 1), now), q[Len(q)], now)

\* No inferred creation time of the merge depended on when it was read.
ClockFree(q) ==
  \/ sortClock = SortEpoch
  \/ \A i \in 1..Len(q) : Timestamped(q[i])

C11_WitnessEmpty ==
  /\ Merged
  /\ Truthy(request.body.paramThreadId)
  /\ Truthy(request.body.summaryThreadId)
  /\ rawParam = <<>>
  /\ rawSummary = <<>>
  /\ response.messages = <<>>

\* `limit` is a number above zero.
PositiveLimit(limit) == limit.k = "num" /\ limit.num > 0

\* The last k elements of q (all of them if k exceeds its length).
Suffix(q, k) == SubSeq(q, (IF k < Len(q) THEN Len(q) - k ELSE 0) + 1, Len(q))

\* C12: with a positive limit the answer holds exactly the last
\* min(limit, n) entries of the ordered merged sequence, in the same order
\* (a limit that is not whole counts for the whole entries it covers);
\* without a limit, or with one that is not positive, it holds the whole
\* sequence; mergedCount is the length of what is returned.
C12_LimitKeepsSuffix ==
  Merged =>
    LET limit == request.body.limit
    IN /\ response.mergedCount = Len(response.messages)
       /\ PositiveLimit(limit) =>
            response.messages = Suffix(sortArr, limit.num \div limit.den)
       /\ ~PositiveLimit(limit) => response.messages = sortArr


\* How often x occurs in q.
Count(q, x) == Cardinality({i \in 1..Len(q) : q[i] = x})

\* q holds the elements of r, each as often as r does.
PermutationOf(q, r) ==
  /\ Len(q) = Len(r)
  /\ \A i \in 1..Len(r) : Count(q, r[i]) = Count(r, r[i])

\* C15: while the merge route sorts and when it has answered, the merged
\* sequence is a permutation of rawParam followed by rawSummary: every
\* message returned by listMessages is in it as often as it was returned,
\* with the fields and values it was returned with, and nothing else is; the
\* messages of the answer are taken from it.
C15_MergeOnlyReorders ==
  ((reqPc = "sorting" /\ sortPc \in {"search", "done"}) \/ Merged) =>
    /\ PermutationOf(sortArr, rawParam \o rawSummary)
    /\ Merged =>
         \A i \in 1..Len(response.messages) :
           Count(response.messages, response.messages[i])
             <= Count(rawParam \o rawSummary, response.messages[i])

\* The same message in both histories and a third one that the sort moves
\* to the front.
C15_Witness ==
  /\ Merged
  /\ Len(rawParam) = 2
  /\ rawSummary = <<rawParam[1]>>
  /\ rawParam[1] # rawParam[2]
  /\ sortArr = <<rawParam[2], rawParam[1], rawParam[1]>>
  /\ response.messages = sortArr

(***************************************************************************)
(*                         pickCreatedMs: C13                              *)
(***************************************************************************)

\* The candidate keys in the order the claim gives them.
ClaimedKeys == <<"created_at", "createdAt", "created", "createTime", "timestamp">>

\* The field holds a number, or a string that parses as a date.
Yields(f) == f.k \in {"num", "date"}

IsFinite(x) == x < Infinity

\* C13: the result of pickCreatedMs comes from the first key, in the order
\* created_at, createdAt, created, createTime, timestamp, whose value gives a
\* time: a number below 10^12 times 1000, a number from 10^12 on unchanged, a
\* string parsed as a date; with no such key it is the current time; and it
\* is always a finite number. {created_at: 1700000000} and
\* {createdAt: 1700000000000} both give 1700000000000.
C13_FirstKeyInPriorityOrder ==
  pickPc = "done" =>
    LET hits == {i \in 1..Len(ClaimedKeys) : Yields(pickArg[ClaimedKeys[i]])}
    IN /\ hits = {} => pickOut = pickNow
       /\ hits # {} =>
            LET i == CHOOSE j \in hits : \A h \in hits : j <= h
                f == pickArg[ClaimedKeys[i]]
            IN /\ (f.k = "num" /\ f.v < 1000000) => pickOut = f.v * 1000
               /\ (f.k = "num" /\ f.v >= 1000000) => pickOut = f.v
               /\ f.k = "date" => pickOut = f.v
       /\ pickArg = [BareMessage EXCEPT !.created_at = Num(1700)]
            => pickOut = 1700000
       /\ pickArg = [BareMessage EXCEPT !.createdAt = Num(SortEpoch + 5)]
            => pickOut = SortEpoch + 5
       /\ IsFinite(pickOut)

(***************************************************************************)
(*                   getLastAssistantMessage: C14                          *)
(***************************************************************************)

UpperOf(c) ==
  CASE c = "a" -> "A" [] c = "s" -> "S" [] c = "i" -> "I" [] c = "t" -> "T"
    [] c = "n" -> "N" [] c = "u" -> "U" [] c = "e" -> "E" [] c = "r" -> "R"
    [] OTHER -> c

\* The strings are equal up to the case of their letters.
SameIgnoringCase(x, y) ==
  /\ Len(x) = Len(y)
  /\ \A i \in 1..Len(x) : UpperOf(x[i]) = UpperOf(y[i])

\* The role of a message as the claim reads it: the first of role, author
\* and from that is not null.
ClaimedRole(m) ==
  LET given == <<m.role, m.author, m.from>>
      set == {i \in 1..3 : given[i].k # "none"}
  IN IF set = {} THEN <<>>
     ELSE given[CHOOSE i \in set : \A j \in set : i <= j].s

\* C14: for an array of messages the result is the message with the
\* greatest index whose role (first non-null of role, author, from; compared
\* case-insensitively) is assistant; if no message matches it is the last
\* element; for an empty array it is null. For
\* [{role: user}, {role: assistant, id: x}, {role: user}] it is the second.
C14_LastAssistantOrLastElement ==
  (lastPc = "done" /\ lastArg.isArray) =>
    LET q == lastArg.items
        hits == {i \in 1..Len(q) : SameIgnoringCase(ClaimedRole(q[i]), Assistant)}
    IN /\ q = <<>> => lastOut = Null
       /\ hits # {} =>
            /\ lastOut.k = "msg"
            /\ lastOut.at \in hits
            /\ \A i \in hits : i <= lastOut.at
            /\ lastOut.m = q[lastOut.at]
       /\ (hits = {} /\ q # <<>>) =>
            lastOut = [k |-> "msg", at |-> Len(q), m |-> q[Len(q)]]
       /\ q = <<[BareMessage EXCEPT !.role = Id(User)],
                [BareMessage EXCEPT !.id = Id(<<"x">>), !.role = Id(Assistant)],
                [BareMessage EXCEPT !.role = Id(User)]>>
            => (lastOut.at = 2 /\ lastOut.m.id = Id(<<"x">>))

\* Two assistant messages, the later one named by `author` in capitals and
\* followed by a user message: the later one is returned.
C14_Witness ==
  /\ lastPc = "done"
  /\ Len(lastArg.items) = 3
  /\ lastArg.items[1].role = Id(Assistant)
  /\ lastArg.items[2].author = Id(AssistantUpper)
  /\ lastArg.items[3].role = Id(User)
  /\ lastOut.at = 2

\* No assistant message: the last element is returned.
C14_WitnessFallback ==
  /\ lastPc = "done"
  /\ Len(lastArg.items) = 2
  /\ lastArg.items[1].role = Id(User)
  /\ lastArg.items[2] = [BareMessage EXCEPT !.role = Id(<<>>),
                                            !.author = Id(Assistant)]
  /\ lastOut.at = 2

(***************************************************************************)
(*                      the two routes: C16                                *)
(***************************************************************************)

RemoteOps ==
  {"createThread", "appendMessage", "createRun", "getRun", "listMessages"}

\* The remote calls issued for the current request.
Issued == {i \in 1..Len(remote) : remote[i].op \in RemoteOps}

\* The agent type of the body, surrounding white space aside, is none of the
\* configured ones.
UnknownAgentType(body) ==
  LET t == IF body.agentType.present THEN Trim(body.agentType.text) ELSE <<>>
  IN t # Params /\ t # Summary /\ t # Route

NoThreadId(body) ==
  /\ body.paramThreadId \in {"undefined", ""}
  /\ body.summaryThreadId \in {"undefined", ""}

\* The current request does not pass validation.
Invalid ==
  \/ /\ request.route = "send"
     /\ UnknownAgentType(request.body) \/ Blank(request.body.message)
  \/ /\ request.route = "messages"
     /\ NoThreadId(request.body)

\* C16: a send request with an agent type outside the configured set or with
\* an empty or whitespace-only message, and a messages request with no thread
\* id, is answered 400 and no remote call is issued for it; a request that
\* passes validation is never answered 400; and once a remote call has been
\* rejected or the run has failed the request is answered 500 with the
\* message of that failure (the fixed text if the failure carries none).
C16_ValidationBeforeRemoteCalls ==
  request.route \in {"send", "messages"} =>
    /\ Invalid => (reqPc = "done" /\ response.status = 400 /\ Issued = {})
    /\ (reqPc = "done" /\ response.status = 400) => Invalid
    /\ \A i \in Issued :
         remote[i].res = "fail" =>
           /\ reqPc = "done"
           /\ response.status = 500
           /\ response.error = (IF remote[i].err = "undefined"
                                THEN "Internal Server Error" ELSE remote[i].err)
    /\ (request.route = "send" /\ reqPc = "done" /\ cur.status = "failed"
          /\ remote[Len(remote)].res = "ok") =>
         /\ response.status = 500
         /\ response.error = "run failed: " \o cur.lastError
    /\ (reqPc = "done" /\ response.status = 500) =>
         \/ \E i \in Issued : remote[i].res = "fail"
         \/ cur.status = "failed"

\* A padded but configured agent type with a whitespace-only message.
C16_Witness ==
  /\ reqPc = "done"
  /\ request.route = "send"
  /\ request.body.agentType.text = <<" ">> \o Route \o <<" ">>
  /\ request.body.message = [present |-> TRUE, text |-> <<"\t", " ">>]
  /\ response = Answer(400, "Message required")
  /\ remote = <<>>

\* After validation createThread succeeded and appendMessage was rejected.
C16_WitnessFailure ==
  /\ reqPc = "done"
  /\ request.route = "send"
  /\ Len(remote) = 2
  /\ remote[2].op = "appendMessage"
  /\ remote[2].res = "fail"
  /\ response = Answer(500, "remote unavailable")

(***************************************************************************)
(*                 appendAndRun and its deadline: C17                      *)
(***************************************************************************)

\* C17: no status read of the poll loop is issued at or after the deadline,
\* the instant polling began plus timeoutMs. Stated for the reads that
\* follow a sleep (those after the third remote call); the read that starts
\* the polling is issued at the very instant the deadline is counted from.
C17_NoPollAtOrAfterDeadline ==
  \A i \in 1..Len(calls) :
    (i > 3 /\ calls[i].op = "getRun") => calls[i].at < runEnd

(***************************************************************************)
(*                   the cached pair: C18, C19                             *)
(***************************************************************************)

\* The lifetime in seconds the identity service gave the token, as its
\* response states it: the number, the number written in the string, or the
\* default when the response states none.
Lifetime(e) ==
  CASE e \in {"80", "string"} -> 80
    [] e = "0" -> 0
    [] OTHER -> DefaultTtl

\* The earliest instant the cached token can expire: it was issued no
\* earlier than the request of its exchange was sent.
RealExpiry(o) == o.now + Lifetime(o.expires)

\* C18: with getToken calls running concurrently, the cached pair is in
\* every state either the initial empty pair or the token and the absolute
\* expiry that one single successful refresh wrote together.
C18_PairReplacedAtomically ==
  \/ /\ origin = NoOrigin
     /\ cachedToken = "null"
     /\ tokenExpireAt = 0
  \/ /\ origin.ret = "fresh"
     /\ cachedToken = "t" \o ToString(origin.xid)
     /\ tokenExpireAt = origin.now + Lifetime(origin.expires)

\* C19: the expiry written to the cache never exceeds the real expiry of the
\* token, and a token served from the cache has more than 60 seconds of
\* real validity left when it is returned.
C19_CachedExpiryConservative ==
  [][/\ origin' # origin =>
          (tokenExpireAt' # StrExpiry /\ tokenExpireAt' <= RealExpiry(origin'))
     /\ \A p \in Callers :
          (callers'[p] # callers[p] /\ callers'[p].ret.kind = "cached")
            => RealExpiry(origin) - authNow > Margin]_vars

(***************************************************************************)
(*                          readiness: C20                                 *)
(***************************************************************************)

\* Bootstrap has failed: a setting is missing or a readiness check was
\* rejected.
BootstrapFailed == ~env \/ \E a \in Agents : checks[a] = "fail"

ReadyGate ==
  /\ ctx.ready =>
       /\ \A a \in Agents : checks[a] = "ok"
       /\ ctx.agentParams /\ ctx.agentSummary /\ ctx.agentRouting
  /\ procPc = "listening" => ctx.ready
  /\ BootstrapFailed =>
       /\ procPc \in {"boot", "exited"}
       /\ ~ctx.ready
       /\ request = NoRequest
  /\ request # NoRequest =>
       /\ ctx.ready
       /\ ctx.agentParams /\ ctx.agentSummary /\ ctx.agentRouting
       /\ response.status # 503

\* C20: ctx.ready is true only when the readiness check of every agent has
\* succeeded and every agent service is bound; once true it stays true; the
\* listener runs only with ready true; after a failed bootstrap the process
\* never listens; and a request handler runs only with ready true and every
\* service bound (so none answers 503).
C20_ReadinessOneWayGate ==
  /\ []ReadyGate
  /\ [][ctx.ready => ctx'.ready]_vars
  /\ [][(BootstrapFailed /\ procPc = "exited") => procPc' = "exited"]_vars

\* The process listens and a send request has been answered 200.
C20_Witness ==
  /\ procPc = "listening"
  /\ ctx = AllBound
  /\ reqPc = "done"
  /\ request.route = "send"
  /\ response.status = 200

\* One readiness check was rejected while another was still in flight.
C20_WitnessFailed ==
  /\ procPc = "exited"
  /\ \E a, b \in Agents : checks[a] = "fail" /\ checks[b] = "pending"
  /\ ~ctx.ready

=============================================================================
